---- MODULE Spec2Model ----
(***************************************************************************)
(* Model of src/app.py: the CSV log pipeline                               *)
(*   load_csv -> filter_by_interval -> merge_and_sort -> generate_csv      *)
(* driven by main().                                                       *)
(*                                                                         *)
(* Text is modelled as a sequence of one-character strings, so that        *)
(* split, int(), str() and the date/time parsers are computed and not      *)
(* assumed.  The Japanese column names of the source are written in        *)
(* romaji because the module text is ASCII:                                *)
(*   "hizuke"        is the column name U+65E5 U+4ED8  (date)              *)
(*   "jikoku"        is the column name U+6642 U+523B  (time)              *)
(*   "junkansui"     is the column name of the circulating water flow      *)
(* A missing cell (pandas NaN / NaT) is the one-element sequence NA.       *)
(***************************************************************************)
EXTENDS Integers, Sequences, FiniteSets, TLC

VARIABLES
    uploaded_files,    \* main: the files of st.file_uploader
    interval_seconds,  \* main: the interval of the run whose results are shown
    pc,                \* main: where the last run of the script ended
    temp_dfs,          \* main: the tables load_csv returned
    reduced_dfs,       \* main: the tables filter_by_interval returned
    merged_df,         \* main: the table merge_and_sort returned
    csv_bytes,         \* main: the download artifact, NoArtifact when none
    messages,          \* st.warning / st.error / st.success calls, in order
    date_str,          \* convert_short_year_to_full: its argument
    year_out,          \* convert_short_year_to_full: its result
    date_out           \* load_csv line 46: the date column after strict parse

vars == <<uploaded_files, interval_seconds, pc, temp_dfs, reduced_dfs,
          merged_df, csv_bytes, messages, date_str, year_out, date_out>>

mainVars == <<uploaded_files, interval_seconds, pc, temp_dfs, reduced_dfs,
              merged_df, csv_bytes, messages>>

yearVars == <<date_str, year_out, date_out>>

(***************************************************************************)
(* Bounds of the model.                                                    *)
(***************************************************************************)
MaxFiles == 2     \* files in one upload
MaxRows == 2      \* data rows in one upload, all files together
MaxYearLen == 4   \* characters of the leading part of a date string

(***************************************************************************)
(* Text helpers.                                                           *)
(***************************************************************************)
NA == <<"NaN">>
Raised == <<"raise">>
NotRun == <<"not run">>
NoArtifact == <<"no artifact">>

Digits == {"0", "1", "2", "3", "4", "5", "6", "7", "8", "9"}

DigitVal(c) ==
    CASE c = "0" -> 0 [] c = "1" -> 1 [] c = "2" -> 2 [] c = "3" -> 3
      [] c = "4" -> 4 [] c = "5" -> 5 [] c = "6" -> 6 [] c = "7" -> 7
      [] c = "8" -> 8 [] c = "9" -> 9

DigitChar(n) ==
    CASE n = 0 -> "0" [] n = 1 -> "1" [] n = 2 -> "2" [] n = 3 -> "3"
      [] n = 4 -> "4" [] n = 5 -> "5" [] n = 6 -> "6" [] n = 7 -> "7"
      [] n = 8 -> "8" [] n = 9 -> "9"

IsDigits(s) == Len(s) > 0 /\ \A i \in 1..Len(s) : s[i] \in Digits

RECURSIVE IntOf(_)
\* int(s) for a string of decimal digits
IntOf(s) ==
    IF Len(s) = 0 THEN 0
    ELSE 10 * IntOf(SubSeq(s, 1, Len(s) - 1)) + DigitVal(s[Len(s)])

RECURSIVE StrOf(_)
\* str(n) / f"{n}" for n >= 0
StrOf(n) ==
    IF n < 10 THEN <<DigitChar(n)>>
    ELSE StrOf(n \div 10) \o <<DigitChar(n % 10)>>

\* strftime's %m, %d, %H, %M, %S: two digits, zero padded
Pad2(n) == <<DigitChar(n \div 10), DigitChar(n % 10)>>

\* strftime's %Y: four digits, zero padded
Pad4(n) == Pad2(n \div 100) \o Pad2(n % 100)

RECURSIVE SplitFrom(_, _, _, _, _)
\* the scan of s from position i on: done are the parts closed so far, cur
\* the part being read
SplitFrom(s, sep, i, done, cur) ==
    IF i > Len(s) THEN Append(done, cur)
    ELSE IF s[i] = sep THEN SplitFrom(s, sep, i + 1, Append(done, cur), <<>>)
    ELSE SplitFrom(s, sep, i + 1, done, Append(cur, s[i]))

\* s.split(sep)
Split(s, sep) == SplitFrom(s, sep, 1, <<>>, <<>>)

(***************************************************************************)
(* convert_short_year_to_full (lines 8-14).  int() of a part that is not   *)
(* a number raises ValueError: the result is then Raised.                  *)
(***************************************************************************)
\* line 12 with the pivot one year later
PromoteYear71(year) == year + (IF year < 71 THEN 2000 ELSE 1900)

\* line 12
PromoteYear(year) == year + (IF year < 70 THEN 2000 ELSE 1900)

\* lines 10-14, parts the result of line 9
ConvertParts(s, parts) ==
    IF Len(parts) = 3 /\ Len(parts[1]) = 2
    THEN IF ~IsDigits(parts[1]) THEN Raised
         ELSE StrOf(PromoteYear(IntOf(parts[1])))
                \o <<"/">> \o parts[2] \o <<"/">> \o parts[3]
    ELSE s

convert_short_year_to_full(s) == ConvertParts(s, Split(s, "/"))

(***************************************************************************)
(* pd.to_datetime(.., format='%Y/%m/%d', errors='raise') followed by       *)
(* .dt.strftime('%Y-%m-%d') (line 46), for one cell.  The strings pandas   *)
(* reads as null ('nan', the str() of a missing cell) give NaT and then a  *)
(* missing cell; every other string that is not a calendar date written    *)
(* YYYY/M/D raises.                                                        *)
(***************************************************************************)
NanStr == <<"n", "a", "n">>

IsLeap(y) == (y % 4 = 0 /\ y % 100 # 0) \/ y % 400 = 0

DaysInMonth(y, m) ==
    IF m = 2 THEN (IF IsLeap(y) THEN 29 ELSE 28)
    ELSE IF m \in {4, 6, 9, 11} THEN 30 ELSE 31

\* the fields of a date string that matches %Y/%m/%d; ok is FALSE when the
\* string does not match or names no calendar day
ParseDateParts(parts) ==
    IF /\ Len(parts) = 3
       /\ Len(parts[1]) = 4 /\ IsDigits(parts[1])
       /\ Len(parts[2]) \in {1, 2} /\ IsDigits(parts[2])
       /\ Len(parts[3]) \in {1, 2} /\ IsDigits(parts[3])
       /\ IntOf(parts[2]) \in 1..12
       /\ IntOf(parts[3]) \in 1..DaysInMonth(IntOf(parts[1]), IntOf(parts[2]))
    THEN [ok |-> TRUE, y |-> IntOf(parts[1]), m |-> IntOf(parts[2]),
          d |-> IntOf(parts[3])]
    ELSE [ok |-> FALSE, y |-> 0, m |-> 0, d |-> 0]

ParseDate(s) == ParseDateParts(Split(s, "/"))

DateCanRaise(s) == s # NanStr /\ ~ParseDate(s).ok

\* strftime('%Y-%m-%d')
StrfDate(p) == Pad4(p.y) \o <<"-">> \o Pad2(p.m) \o <<"-">> \o Pad2(p.d)

\* the cell after line 46
FormatDate(s) == IF s = NanStr THEN NA ELSE StrfDate(ParseDate(s))

(***************************************************************************)
(* The date strings the conversion is run on: a leading part of up to      *)
(* MaxYearLen characters followed by one of a few tails.                   *)
(***************************************************************************)
YearChars == {"0", "6", "7", "9", "x"}

RECURSIVE StringsOfLen(_, _)
StringsOfLen(chars, n) ==
    IF n = 0 THEN {<<>>}
    ELSE {<<c>> \o t : c \in chars, t \in StringsOfLen(chars, n - 1)}

StringsUpTo(chars, n) == UNION {StringsOfLen(chars, k) : k \in 1..n}

DateTails ==
    { <<"/", "0", "1", "/", "0", "1">>,
      <<"/", "1", "2", "/", "3", "1">>,
      <<"/", "2", "/", "3">>,
      <<"/", "0", "2", "/", "3", "0">>,
      <<"/", "0", "1">>,
      <<"/", "0", "1", "/", "0", "1", "/", "0", "1">>,
      <<"-", "0", "1", "-", "0", "1">> }

DateInputs == {y \o t : y \in StringsUpTo(YearChars, MaxYearLen), t \in DateTails}


(***************************************************************************)
(* Tables.  A DataFrame is its column names and its rows; a row holds one  *)
(* value per column, in column order.  A column name is a sequence of      *)
(* words; a cell is a text, NA, or (datetime columns) a number of seconds  *)
(* since 1970-01-01 00:00:00.                                              *)
(***************************************************************************)
EmptyDF == [columns |-> <<>>, rows |-> <<>>]

\* DataFrame.empty
IsEmpty(df) == Len(df.columns) = 0 \/ Len(df.rows) = 0

HasCol(df, name) == \E i \in 1..Len(df.columns) : df.columns[i] = name

ColIdx(df, name) == CHOOSE i \in 1..Len(df.columns) : df.columns[i] = name

CountCol(cols, name) == Cardinality({i \in 1..Len(cols) : cols[i] = name})

Get(df, r, name) == r[ColIdx(df, name)]

\* the Timestamp of a row
Stamp(df, r) == r[ColIdx(df, <<"datetime">>)]

MapSeq(s, F(_)) == <<>> \o [i \in 1..Len(s) |-> F(s[i])]

HIZUKE == <<"hizuke">>
JIKOKU == <<"jikoku">>
JUNKANSUI == <<"junkansui">>
DATETIME == <<"datetime">>
DATETIME_ROUNDED == <<"datetime_rounded">>

(***************************************************************************)
(* Header clean-up and role mapping (lines 25-31).                         *)
(***************************************************************************)
Whitespace == {" ", "IDSP", "TAB"}

\* str.strip / str.replace(r"\s+", "") / str.replace(ideographic space, "")
StripWs(s) == SelectSeq(s, LAMBDA c : c \notin Whitespace)

\* str.lower() of one word
LowerWord(w) ==
    CASE w = "Date" -> "date" [] w = "DATE" -> "date" [] w = "Day" -> "day"
      [] w = "Time" -> "time" [] OTHER -> w

Lower(s) == MapSeq(s, LowerWord)

Contains(s, w) == \E i \in 1..Len(s) : s[i] = w

\* rename_map[col]
Rename(col) ==
    IF Contains(col, "hizuke") \/ Lower(col) \in {<<"date">>, <<"day">>}
    THEN HIZUKE
    ELSE IF Contains(col, "jikoku") \/ Lower(col) = <<"time">>
    THEN JIKOKU
    ELSE col

ResolveColumns(cols) == MapSeq(cols, LAMBDA c : Rename(StripWs(c)))

(***************************************************************************)
(* Time of day: pd.to_datetime(.., errors='raise') then                    *)
(* .dt.strftime('%H:%M:%S') (line 47), for one cell: H:M or H:M:S.  What   *)
(* pandas does with a column that mixes the two forms depends on its       *)
(* version; the uploads of this model write every time as H:M:S.           *)
(***************************************************************************)
ParseTimeParts(parts) ==
    IF /\ Len(parts) \in {2, 3}
       /\ \A i \in 1..Len(parts) : Len(parts[i]) \in {1, 2} /\ IsDigits(parts[i])
       /\ IntOf(parts[1]) < 24
       /\ \A i \in 2..Len(parts) : IntOf(parts[i]) < 60
    THEN [ok |-> TRUE, h |-> IntOf(parts[1]), mi |-> IntOf(parts[2]),
          s |-> IF Len(parts) = 3 THEN IntOf(parts[3]) ELSE 0]
    ELSE [ok |-> FALSE, h |-> 0, mi |-> 0, s |-> 0]

ParseTime(s) == ParseTimeParts(Split(s, ":"))

TimeCanRaise(s) == s # NanStr /\ ~ParseTime(s).ok

\* strftime('%H:%M:%S')
StrfTime(p) == Pad2(p.h) \o <<":">> \o Pad2(p.mi) \o <<":">> \o Pad2(p.s)

FormatTime(s) == IF s = NanStr THEN NA ELSE StrfTime(ParseTime(s))

\* days from 1970-01-01 to y-m-d (proleptic Gregorian calendar)
DaysFromCivil(y, m, d) ==
    LET yy == IF m <= 2 THEN y - 1 ELSE y
        era == yy \div 400
        yoe == yy - era * 400
        mp == IF m > 2 THEN m - 3 ELSE m + 9
        doy == (153 * mp + 2) \div 5 + d - 1
        doe == yoe * 365 + yoe \div 4 - yoe \div 100 + doy
    IN  era * 146097 + doe - 719468

\* pd.to_datetime("YYYY-MM-DD HH:MM:SS") (lines 49-50), in seconds
TimestampOfParts(dp, tp) ==
    DaysFromCivil(IntOf(dp[1]), IntOf(dp[2]), IntOf(dp[3])) * 86400
      + IntOf(tp[1]) * 3600 + IntOf(tp[2]) * 60 + IntOf(tp[3])

Timestamp(d, t) == TimestampOfParts(Split(d, "-"), Split(t, ":"))

(***************************************************************************)
(* load_csv (lines 17-58).  An uploaded file is the table read_csv gives:  *)
(* its header texts and its rows of texts (NA for an empty field).  The    *)
(* result is the returned DataFrame and what was reported: "ok" nothing,   *)
(* "warning" the st.warning of line 34, "error" the st.error of line 56    *)
(* (an exception anywhere in the body returns the empty DataFrame).        *)
(***************************************************************************)
Rejected(how) == [df |-> EmptyDF, diag |-> how]

\* astype(str) and the whitespace removal of lines 40-41, for one cell
Clean(c) == StripWs(IF c = NA THEN NanStr ELSE c)

\* lines 38-44: the rows that reach the parsers
RowsToParse(rows, di, ti) ==
    MapSeq(
      SelectSeq(
        \* line 38 (rows that repeat the header), then lines 40-41
        MapSeq(SelectSeq(rows, LAMBDA r :
                   ~Contains(r[di], "hizuke") /\ ~Contains(r[ti], "jikoku")),
               LAMBDA r : [r EXCEPT ![di] = Clean(@), ![ti] = Clean(@)]),
        \* line 42
        LAMBDA r : r[di] # <<>> /\ r[ti] # <<>>),
      \* line 44
      LAMBDA r : [r EXCEPT ![di] = convert_short_year_to_full(@)])

\* lines 46-53 where no cell raises
ParsedRows(rows44, di, ti) ==
    MapSeq(
      \* lines 49-51: a missing date or time gives NaT and the row is dropped
      SelectSeq(
        \* lines 46-47
        MapSeq(rows44, LAMBDA r :
                 [r EXCEPT ![di] = FormatDate(@), ![ti] = FormatTime(@)]),
        LAMBDA r : r[di] # NA /\ r[ti] # NA),
      LAMBDA r : Append(r, Timestamp(r[di], r[ti])))

\* lines 44-58, rows44 the rows after line 44: one cell that raises in line
\* 44, 46 or 47 ends the whole call in the handler of line 55
ParseRows(rows44, cols, di, ti) ==
    IF \E i \in 1..Len(rows44) :
           \/ rows44[i][di] = Raised
           \/ DateCanRaise(rows44[i][di])
           \/ TimeCanRaise(rows44[i][ti])
    THEN Rejected("error")
    ELSE [df |-> [columns |-> Append(cols, DATETIME),
                  rows |-> ParsedRows(rows44, di, ti)],
          diag |-> "ok"]

\* lines 38-58, once the date column di and the time column ti are known
LoadRows(file, cols, di, ti) ==
    ParseRows(RowsToParse(file.rows, di, ti), cols, di, ti)

\* a load_csv in which df['hizuke'] of a repeated column name gives its first
\* column instead of failing
LoadFirstOfRepeated(file, cols) ==
    IF CountCol(cols, HIZUKE) = 0 \/ CountCol(cols, JIKOKU) = 0
    THEN Rejected("warning")
    ELSE LoadRows(file, cols,
                  CHOOSE i \in 1..Len(cols) :
                      cols[i] = HIZUKE /\ \A j \in 1..(i - 1) : cols[j] # HIZUKE,
                  CHOOSE i \in 1..Len(cols) :
                      cols[i] = JIKOKU /\ \A j \in 1..(i - 1) : cols[j] # JIKOKU)

\* lines 33-58, cols the column names after line 31
LoadResolved(file, cols) ==
    \* line 33
    IF CountCol(cols, HIZUKE) = 0 \/ CountCol(cols, JIKOKU) = 0
    THEN Rejected("warning")
    \* line 38: df['hizuke'] is a DataFrame when two columns carry the name,
    \* and a DataFrame has no .str: AttributeError
    ELSE IF CountCol(cols, HIZUKE) > 1 \/ CountCol(cols, JIKOKU) > 1
    THEN Rejected("error")
    ELSE LoadRows(file, cols,
                  CHOOSE i \in 1..Len(cols) : cols[i] = HIZUKE,
                  CHOOSE i \in 1..Len(cols) : cols[i] = JIKOKU)

load_csv(file) == LoadResolved(file, ResolveColumns(file.columns))

(***************************************************************************)
(* filter_by_interval (lines 61-83).                                       *)
(***************************************************************************)
RECURSIVE SortedSeqOf(_)
\* the elements of a finite set of integers, ascending
SortedSeqOf(S) ==
    IF S = {} THEN <<>>
    ELSE LET m == CHOOSE x \in S : \A y \in S : x <= y
         IN  <<m>> \o SortedSeqOf(S \ {m})

\* a rounding to the nearest multiple instead of the one below
FloorNearest(t, n) == ((t + n \div 2) \div n) * n

\* Series.dt.floor(f'{n}S') of one Timestamp: whole multiples of n seconds
\* counted from 1970-01-01 00:00:00
Floor(t, n) == (t \div n) * n

\* a datetime column holds seconds, and after line 51 never a missing value
IsNA(col, v) == col \notin {DATETIME, DATETIME_ROUNDED} /\ v = NA

\* GroupBy.first() of one column: the first value that is not missing
FirstValid(col, cells) ==
    IF \A i \in 1..Len(cells) : IsNA(col, cells[i]) THEN NA
    ELSE cells[CHOOSE i \in 1..Len(cells) :
                   ~IsNA(col, cells[i]) /\ \A j \in 1..(i - 1) : IsNA(col, cells[j])]

\* one row of GroupBy.first(): the key, then each column's first valid value
\* among the rows group of the key, taken in the order of the table
GroupRow(df, k, group) ==
    <<k>> \o [c \in 1..Len(df.columns) |->
                 FirstValid(df.columns[c], MapSeq(group, LAMBDA r : r[c]))]

\* lines 70-73, dt the place of the datetime column: the key column comes
\* first, the groups in ascending key order
GroupFirstAt(df, n, dt) ==
    [columns |-> <<DATETIME_ROUNDED>> \o df.columns,
     rows |-> MapSeq(
                 SortedSeqOf({Floor(df.rows[i][dt], n) : i \in 1..Len(df.rows)}),
                 LAMBDA k : GroupRow(df, k,
                                SelectSeq(df.rows, LAMBDA r : Floor(r[dt], n) = k)))]

GroupFirst(df, n) == GroupFirstAt(df, n, ColIdx(df, DATETIME))

\* lines 75-76
DropMissingFlow(df) ==
    IF HasCol(df, JUNKANSUI)
    THEN [df EXCEPT !.rows =
             SelectSeq(df.rows, LAMBDA r : Get(df, r, JUNKANSUI) # NA)]
    ELSE df

\* a filter_by_interval whose guard of line 67 lets 0 through: dt.floor('0S')
\* raises and the handler of line 80 returns the empty DataFrame
filter_by_interval_zero_floors(df, n) ==
    IF ~HasCol(df, DATETIME) THEN Rejected("error")
    ELSE IF n < 0 THEN [df |-> df, diag |-> "ok"]
    ELSE IF n = 0 THEN Rejected("error")
    ELSE [df |-> DropMissingFlow(GroupFirst(df, n)), diag |-> "ok"]

filter_by_interval(df, n) ==
    IF ~HasCol(df, DATETIME) THEN Rejected("error")
    ELSE IF n <= 0 THEN [df |-> df, diag |-> "ok"]
    ELSE [df |-> DropMissingFlow(GroupFirst(df, n)), diag |-> "ok"]

(***************************************************************************)
(* merge_and_sort (lines 86-105).                                          *)
(***************************************************************************)
Front(s) == SubSeq(s, 1, Len(s) - 1)

Last(s) == s[Len(s)]

Range(s) == {s[i] : i \in 1..Len(s)}

RECURSIVE UnionColumns(_)
\* the columns of pd.concat: those of the first table, then the new ones of
\* each later table
UnionColumns(dfs) ==
    IF Len(dfs) = 0 THEN <<>>
    ELSE LET before == UnionColumns(Front(dfs))
         IN  before \o SelectSeq(Last(dfs).columns, LAMBDA c : c \notin Range(before))

RECURSIVE ConcatRows(_, _)
ConcatRows(dfs, cols) ==
    IF Len(dfs) = 0 THEN <<>>
    ELSE LET df == Last(dfs)
             Align(r) == <<>> \o [c \in 1..Len(cols) |->
                             IF HasCol(df, cols[c]) THEN Get(df, r, cols[c]) ELSE NA]
         IN  ConcatRows(Front(dfs), cols) \o MapSeq(df.rows, Align)

ConcatOn(dfs, cols) == [columns |-> cols, rows |-> ConcatRows(dfs, cols)]

\* pd.concat(non_empty, ignore_index=True)
Concat(dfs) == ConcatOn(dfs, UnionColumns(dfs))

RECURSIVE DropDuplicatesByTimestamp(_, _)
\* a drop_duplicates(subset=['datetime'])
DropDuplicatesByTimestamp(rows, dt) ==
    IF Len(rows) = 0 THEN <<>>
    ELSE LET before == DropDuplicatesByTimestamp(Front(rows), dt)
         IN  IF \E i \in 1..Len(before) : before[i][dt] = Last(rows)[dt]
             THEN before ELSE Append(before, Last(rows))

RECURSIVE DropDuplicates(_, _)
\* DataFrame.drop_duplicates(): the first of each group of equal rows stays;
\* dt, the place of the datetime column, plays no part
DropDuplicates(rows, dt) ==
    IF Len(rows) = 0 THEN <<>>
    ELSE LET before == DropDuplicates(Front(rows), dt)
         IN  IF Last(rows) \in Range(before) THEN before ELSE Append(before, Last(rows))

\* no sort at all
Unsorted(rows, k) == rows

RECURSIVE SortValues(_, _)
\* DataFrame.sort_values on column k, ascending; equal keys keep their order
\* (numpy sorts the short arrays of this model by insertion)
SortValues(rows, k) ==
    IF Len(rows) <= 1 THEN rows
    ELSE LET sorted == SortValues(Front(rows), k)
             x == Last(rows)
             n == Cardinality({i \in 1..Len(sorted) : sorted[i][k] <= x[k]})
         IN  SubSeq(sorted, 1, n) \o <<x>> \o SubSeq(sorted, n + 1, Len(sorted))

\* lines 97-98: cols with the name x put in after the name after
InsertAfter(cols, after, x) ==
    SubSeq(cols, 1, ColIdx([columns |-> cols], after)) \o <<x>>
      \o SubSeq(cols, ColIdx([columns |-> cols], after) + 1, Len(cols))

\* line 99: merged[cols]
Reorder(df, cols) ==
    [columns |-> cols,
     rows |-> MapSeq(df.rows, LAMBDA r :
                 <<>> \o [c \in 1..Len(cols) |-> Get(df, r, cols[c])])]

\* lines 94-99: datetime moves to the place after jikoku
Reposition(df) ==
    IF HasCol(df, DATETIME) /\ HasCol(df, JIKOKU)
    THEN Reorder(df, InsertAfter(SelectSeq(df.columns, LAMBDA c : c # DATETIME),
                                 JIKOKU, DATETIME))
    ELSE df

NonEmpty(dfs) == SelectSeq(dfs, LAMBDA d : ~IsEmpty(d))

\* line 92 after the concat, dt the place of the datetime column
DedupAndSort(cat, dt) ==
    [cat EXCEPT !.rows = SortValues(DropDuplicates(cat.rows, dt), dt)]

\* lines 92-101, cat the concatenation
MergeConcat(cat) ==
    \* sort_values('datetime') without the column: KeyError, line 102
    IF ~HasCol(cat, DATETIME) THEN Rejected("error")
    ELSE [df |-> Reposition(DedupAndSort(cat, ColIdx(cat, DATETIME))),
          diag |-> "ok"]

\* lines 89-101, non_empty the list of line 88
MergeNonEmpty(non_empty) ==
    IF Len(non_empty) = 0 THEN [df |-> EmptyDF, diag |-> "ok"]
    ELSE MergeConcat(Concat(non_empty))

merge_and_sort(dfs) == MergeNonEmpty(NonEmpty(dfs))

(***************************************************************************)
(* generate_csv (lines 108-111): the byte order mark, the header line and  *)
(* one line per row; a missing cell is written as the empty text and a     *)
(* Timestamp as YYYY-MM-DD HH:MM:SS.                                       *)
(***************************************************************************)
FormatTimestamp(t) ==
    LET days == t \div 86400
        secs == t % 86400
        z == days + 719468
        era == z \div 146097
        doe == z - era * 146097
        yoe == (doe - doe \div 1460 + doe \div 36524 - doe \div 146096) \div 365
        doy == doe - (365 * yoe + yoe \div 4 - yoe \div 100)
        mp == (5 * doy + 2) \div 153
        d == doy - (153 * mp + 2) \div 5 + 1
        m == IF mp < 10 THEN mp + 3 ELSE mp - 9
        y == yoe + era * 400 + (IF m <= 2 THEN 1 ELSE 0)
    IN  Pad4(y) \o <<"-">> \o Pad2(m) \o <<"-">> \o Pad2(d) \o <<" ">>
          \o Pad2(secs \div 3600) \o <<":">> \o Pad2((secs % 3600) \div 60)
          \o <<":">> \o Pad2(secs % 60)

generate_csv(df) ==
    LET Field(r, c) ==
            IF df.columns[c] \in {DATETIME, DATETIME_ROUNDED}
            THEN FormatTimestamp(r[c])
            ELSE IF IsNA(df.columns[c], r[c]) THEN <<>> ELSE r[c]
        Line(r) == <<>> \o [c \in 1..Len(df.columns) |-> Field(r, c)]
    IN  <<"BOM", df.columns>> \o MapSeq(df.rows, Line)

(***************************************************************************)
(* The uploads the model runs main() on.                                   *)
(***************************************************************************)
\* select_interval (lines 114-126): the values of seconds_map
IntervalOptions == {0, 5, 10, 30, 60, 300, 600}

D70 == <<"7", "0", "/", "0", "1", "/", "0", "1">>
D1970 == <<"1", "9", "7", "0", "/", "0", "1", "/", "0", "1">>
DDash == <<"1", "9", "7", "0", "-", "0", "1", "-", "0", "1">>
T55 == <<"0", "0", ":", "0", "0", ":", "5", "5">>
T0100 == <<"0", "0", ":", "0", "1", ":", "0", "0", " ">>
F1 == <<"1">>
F2 == <<"2">>

\* rows of three cells: a date, a time, a flow
RowChoices ==
    { <<D70, T55, NA>>,
      <<D1970, T55, F1>>,
      <<D1970, T0100, F2>>,
      <<DDash, T0100, F1>> }

HeaderChoices ==
    { \* one date column, one time column, the flow column
      << <<" ", "Date">>, <<"jikoku", "IDSP">>, <<"junkansui">> >>,
      \* no date column
      << <<"Value1">>, <<"Time">>, <<"junkansui">> >>,
      \* two date columns
      << <<"No", "hizuke">>, <<"jikoku">>, <<"Day">> >> }

RECURSIVE SeqsOfLen(_, _)
SeqsOfLen(S, n) ==
    IF n = 0 THEN {<<>>}
    ELSE {Append(t, x) : t \in SeqsOfLen(S, n - 1), x \in S}

FileChoices ==
    {[columns |-> h, rows |-> rs] :
        h \in HeaderChoices,
        rs \in UNION {SeqsOfLen(RowChoices, k) : k \in 0..MaxRows}}

RECURSIVE TotalRows(_)
TotalRows(files) ==
    IF Len(files) = 0 THEN 0
    ELSE TotalRows(Front(files)) + Len(Last(files).rows)

(***************************************************************************)
(* main (lines 129-196).  Streamlit runs the script again on every widget  *)
(* event; only the run that follows a click on the start button enters     *)
(* line 137, every other run shows the widgets and nothing else.           *)
(***************************************************************************)
Shown(files) ==
    /\ uploaded_files' = files
    /\ pc' = "idle"
    /\ temp_dfs' = <<>>
    /\ reduced_dfs' = <<>>
    /\ merged_df' = EmptyDF
    /\ csv_bytes' = NoArtifact
    /\ messages' = <<>>
    /\ interval_seconds' = 60
    /\ UNCHANGED yearVars

\* st.file_uploader (line 134): one more file
Upload(f) ==
    /\ pc = "idle"
    /\ Len(uploaded_files) < MaxFiles
    /\ TotalRows(uploaded_files) + Len(f.rows) <= MaxRows
    /\ Shown(Append(uploaded_files, f))

\* any widget event after a finished run: the script runs without the click
Rerun ==
    /\ pc # "idle"
    /\ Shown(uploaded_files)

Diags(results, stage) ==
    LET bad == SelectSeq([i \in 1..Len(results) |-> i],
                         LAMBDA i : results[i].diag # "ok")
    IN  MapSeq(bad, LAMBDA i : <<results[i].diag, stage, i>>)

\* line 70 assigns the key column to the table it was handed: the tables of
\* temp_dfs carry it after a run with a positive interval
WithKeyColumn(df, n) ==
    IF HasCol(df, DATETIME) /\ n > 0
    THEN [columns |-> Append(df.columns, DATETIME_ROUNDED),
          rows |-> MapSeq(df.rows, LAMBDA r : Append(r, Floor(Stamp(df, r), n)))]
    ELSE df

\* lines 178-192, with the tables of the three stages
Finish(n, loaded, reduced, merged) ==
    /\ pc' = "done"
    /\ temp_dfs' = MapSeq(loaded, LAMBDA l : WithKeyColumn(l.df, n))
    /\ reduced_dfs' = MapSeq(reduced, LAMBDA r : r.df)
    /\ merged_df' = merged.df
    /\ csv_bytes' = generate_csv(merged.df)
    /\ messages' = Diags(loaded, "load") \o Diags(reduced, "filter")
                     \o Diags(<<merged>>, "merge")
                     \o <<<<"success", "rows", Len(merged.df.rows)>>>>

\* lines 178-180
Merge(n, loaded, reduced) ==
    Finish(n, loaded, reduced, merge_and_sort(MapSeq(reduced, LAMBDA r : r.df)))

\* lines 139-192, loaded the results of load_csv on the files, in order
Run(n, loaded) ==
    IF uploaded_files = <<>>
    THEN \* lines 139-141
         /\ pc' = "stopped"
         /\ messages' = <<<<"warning", "upload", 0>>>>
         /\ UNCHANGED <<temp_dfs, reduced_dfs, merged_df, csv_bytes>>
    ELSE IF \A i \in 1..Len(loaded) : IsEmpty(loaded[i].df)
    THEN \* lines 161-163
         /\ pc' = "stopped"
         /\ temp_dfs' = MapSeq(loaded, LAMBDA l : l.df)
         /\ messages' = Diags(loaded, "load") \o <<<<"warning", "no data", 0>>>>
         /\ UNCHANGED <<reduced_dfs, merged_df, csv_bytes>>
    ELSE \* lines 165-192
         Merge(n, loaded, MapSeq(loaded, LAMBDA l : filter_by_interval(l.df, n)))

\* the start button (lines 133-192): the whole run of the script, n the value
\* select_interval() returns in it
Start(n) ==
    /\ pc = "idle"
    /\ Run(n, MapSeq(uploaded_files, load_csv))
    /\ interval_seconds' = n
    /\ UNCHANGED uploaded_files
    /\ UNCHANGED yearVars

MainIdle ==
    /\ uploaded_files = <<>>
    /\ interval_seconds = 60
    /\ pc = "idle"
    /\ temp_dfs = <<>>
    /\ reduced_dfs = <<>>
    /\ merged_df = EmptyDF
    /\ csv_bytes = NoArtifact
    /\ messages = <<>>

Init ==
    /\ MainIdle
    /\ date_str = NotRun
    /\ year_out = NotRun
    /\ date_out = NotRun

Next ==
    \/ \E f \in FileChoices : Upload(f)
    \/ \E n \in IntervalOptions : Start(n)
    \/ Rerun

Spec == Init /\ [][Next]_vars

(***************************************************************************)
(* The date conversion of lines 44 and 46 on its own, run on DateInputs.   *)
(***************************************************************************)
InitYear ==
    /\ MainIdle
    /\ date_str \in DateInputs
    /\ year_out = NotRun
    /\ date_out = NotRun

\* line 44 on one cell
ConvertYear ==
    /\ year_out = NotRun
    /\ year_out' = convert_short_year_to_full(date_str)
    /\ UNCHANGED <<date_str, date_out>>
    /\ UNCHANGED mainVars

\* line 46 on the cell line 44 produced
StrictParse ==
    /\ year_out \notin {NotRun, Raised}
    /\ date_out = NotRun
    /\ date_out' = IF DateCanRaise(year_out) THEN Raised ELSE FormatDate(year_out)
    /\ UNCHANGED <<date_str, year_out>>
    /\ UNCHANGED mainVars

NextYear == ConvertYear \/ StrictParse

SpecYear == InitYear /\ [][NextYear]_vars

(***************************************************************************)
(* Properties.                                                             *)
(***************************************************************************)
Done == pc = "done"

Files == 1..Len(uploaded_files)

Loaded(i) == HasCol(temp_dfs[i], DATETIME)

Stamps(df) == {Stamp(df, df.rows[j]) : j \in 1..Len(df.rows)}

\* the rows of df, in its order, seen under the column order cols
RowsUnder(df, cols) == Reorder(df, cols).rows

\* C1: the final table merge_and_sort returns is sorted ascending by
\* Timestamp: adjacent rows i, i+1 have timestamp[i] <= timestamp[i+1].
C1_Sorted ==
    Done => \A i \in 1..(Len(merged_df.rows) - 1) :
                Stamp(merged_df, merged_df.rows[i])
                    <= Stamp(merged_df, merged_df.rows[i + 1])

\* a finished run whose reduced tables arrive out of order and are merged
C1_Witness ==
    /\ Done
    /\ Len(merged_df.rows) >= 2
    /\ \E i \in Files : \E j, k \in 1..Len(reduced_dfs[i].rows) :
           /\ j < k
           /\ Stamp(reduced_dfs[i], reduced_dfs[i].rows[j])
                  > Stamp(reduced_dfs[i], reduced_dfs[i].rows[k])

\* the rows of table i whose Timestamp lies in the bucket that starts at b
InBucket(i, b) ==
    SelectSeq(temp_dfs[i].rows, LAMBDA r :
        b <= Stamp(temp_dfs[i], r) /\ Stamp(temp_dfs[i], r) < b + interval_seconds)

Earliest(i, rows) ==
    {r \in Range(rows) :
        \A o \in Range(rows) : Stamp(temp_dfs[i], r) <= Stamp(temp_dfs[i], o)}

\* C2: with intervalSeconds > 0 each bucket of a file keeps exactly one row,
\* and that row is, in every column, the input row of the bucket with the
\* earliest Timestamp (not the first in file order).
C2_EarliestRowWins ==
    (Done /\ interval_seconds > 0) =>
        \A i \in Files : Loaded(i) =>
            \A q \in Range(reduced_dfs[i].rows) :
                /\ \E w \in Earliest(i, InBucket(i, Get(reduced_dfs[i], q, DATETIME_ROUNDED))) :
                       \A c \in 1..Len(temp_dfs[i].columns) :
                           Get(reduced_dfs[i], q, temp_dfs[i].columns[c]) = w[c]
                /\ \A o \in Range(reduced_dfs[i].rows) :
                       Get(reduced_dfs[i], o, DATETIME_ROUNDED)
                           = Get(reduced_dfs[i], q, DATETIME_ROUNDED) => o = q

DateRoles(i) == CountCol(ResolveColumns(uploaded_files[i].columns), HIZUKE)

TimeRoles(i) == CountCol(ResolveColumns(uploaded_files[i].columns), JIKOKU)

\* the rows of file i whose date passes the strict parse and whose time parses
Parsable(i) ==
    SelectSeq(uploaded_files[i].rows, LAMBDA r :
        /\ Clean(r[1]) # NanStr /\ Clean(r[2]) # NanStr
        /\ convert_short_year_to_full(Clean(r[1])) # Raised
        /\ ParseDate(convert_short_year_to_full(Clean(r[1]))).ok
        /\ ParseTime(Clean(r[2])).ok)

\* C3: one row whose Date or Time fails to parse never rejects its file:
\* load_csv drops exactly those rows and returns every other row of the file.
C3_RowScoped ==
    (pc # "idle" /\ uploaded_files # <<>>) =>
        \A i \in Files : (DateRoles(i) = 1 /\ TimeRoles(i) = 1) =>
            /\ Len(temp_dfs[i].rows) = Len(Parsable(i))
            /\ \A j \in 1..Len(temp_dfs[i].rows) :
                   temp_dfs[i].rows[j][3] = Parsable(i)[j][3]

BatchMin ==
    CHOOSE m \in UNION {Stamps(temp_dfs[i]) : i \in {k \in Files : Loaded(k)}} :
        \A o \in UNION {Stamps(temp_dfs[i]) : i \in {k \in Files : Loaded(k)}} : m <= o

NoMissingFlow(df) ==
    \A j \in 1..Len(df.rows) : Get(df, df.rows[j], JUNKANSUI) # NA

C5_NoEmptyArtifact == csv_bytes # NoArtifact => Len(merged_df.rows) >= 1

\* C6: a file is accepted only with exactly one Date-role and exactly one
\* Time-role column; with none or several it yields an empty table and a
\* diagnostic, and the other files are still loaded, reduced and merged.
C6_Schema ==
    (pc # "idle" /\ uploaded_files # <<>>) =>
        /\ \A i \in Files :
               /\ ~IsEmpty(temp_dfs[i]) => (DateRoles(i) = 1 /\ TimeRoles(i) = 1)
               /\ (DateRoles(i) # 1 \/ TimeRoles(i) # 1) =>
                      /\ temp_dfs[i] = EmptyDF
                      /\ \E k \in 1..Len(messages) :
                             messages[k] \in {<<"warning", "load", i>>,
                                              <<"error", "load", i>>}
        /\ (\E j \in Files : ~IsEmpty(temp_dfs[j])) =>
               /\ Done
               /\ \A j \in Files : ~IsEmpty(reduced_dfs[j]) =>
                      Range(RowsUnder(reduced_dfs[j], merged_df.columns))
                          \subseteq Range(merged_df.rows)

\* a file with two Date-role columns is rejected and the other file of the
\* upload reaches the output
C6_Witness ==
    /\ Done
    /\ \E i \in Files : DateRoles(i) > 1 /\ Len(uploaded_files[i].rows) > 0
    /\ Len(merged_df.rows) >= 1

\* C7: the final table holds no two rows equal in every column, exactly one
\* row of each group of equal rows of the concatenation, and every row that
\* differs from the others in some column, also when Timestamps are shared.
C7_RowDedup ==
    Done =>
        /\ \A i, j \in 1..Len(merged_df.rows) :
               merged_df.rows[i] = merged_df.rows[j] => i = j
        /\ Range(RowsUnder(merged_df, Concat(NonEmpty(reduced_dfs)).columns))
               = Range(Concat(NonEmpty(reduced_dfs)).rows)

\* two files bring the same row and the final table keeps one of them
C7_Witness ==
    /\ Done
    /\ Len(Concat(NonEmpty(reduced_dfs)).rows) = 2
    /\ Len(merged_df.rows) = 1

\* C8: with the flow column present and intervalSeconds > 0, a bucket whose
\* winning row (first by Timestamp) misses the flow value contributes no row:
\* every reduced row carries the flow value of the winning row of its bucket,
\* and that value is not missing.
C8_WinnerDropped ==
    (Done /\ interval_seconds > 0) =>
        \A i \in Files : (Loaded(i) /\ HasCol(temp_dfs[i], JUNKANSUI)) =>
            \A q \in Range(reduced_dfs[i].rows) :
                \E w \in Earliest(i, InBucket(i, Get(reduced_dfs[i], q, DATETIME_ROUNDED))) :
                    /\ Get(temp_dfs[i], w, JUNKANSUI) # NA
                    /\ Get(reduced_dfs[i], q, JUNKANSUI) = Get(temp_dfs[i], w, JUNKANSUI)

\* C9: with intervalSeconds = 0 the Downsampler returns the rows of a table
\* that has a Timestamp column unchanged: same values, count and order.
C9_NoOp ==
    (Done /\ interval_seconds = 0) =>
        \A i \in Files : Loaded(i) => reduced_dfs[i] = temp_dfs[i]

\* a run at interval 0 over a table whose two rows are in descending order
C9_Witness ==
    /\ Done
    /\ interval_seconds = 0
    /\ \E i \in Files :
           /\ Loaded(i)
           /\ Len(reduced_dfs[i].rows) = 2
           /\ Stamp(reduced_dfs[i], reduced_dfs[i].rows[1])
                  > Stamp(reduced_dfs[i], reduced_dfs[i].rows[2])

\* the century a two-digit year is promoted into, read off its first digit
Century(yy) == IF yy[1] \in {"7", "8", "9"} THEN <<"1", "9">> ELSE <<"2", "0">>

TwoDigitYear(s) ==
    Len(Split(s, "/")) = 3 /\ Len(Split(s, "/")[1]) = 2 /\ IsDigits(Split(s, "/")[1])

\* C10: a date YY/MM/DD with a two-digit year becomes 20YY/MM/DD when YY < 70
\* and 19YY/MM/DD when YY >= 70, month and day unchanged (69/01/01 is then
\* parsed to 2069-01-01, 70/01/01 to 1970-01-01); a date whose year has four
\* digits passes through unchanged.
C10_Pivot ==
    /\ (year_out # NotRun /\ TwoDigitYear(date_str)) =>
           year_out = Century(Split(date_str, "/")[1]) \o date_str
    /\ (year_out # NotRun /\ Len(Split(date_str, "/")[1]) = 4) =>
           year_out = date_str
    /\ (TwoDigitYear(date_str) /\ date_out \notin {NotRun, Raised}) =>
           date_out = Century(Split(date_str, "/")[1]) \o Split(date_str, "/")[1]
                        \o <<"-">> \o Pad2(IntOf(Split(date_str, "/")[2]))
                        \o <<"-">> \o Pad2(IntOf(Split(date_str, "/")[3]))

\* 70/01/01 has gone through lines 44 and 46
C10_Witness ==
    /\ date_str = <<"7", "0", "/", "0", "1", "/", "0", "1">>
    /\ date_out = <<"1", "9", "7", "0", "-", "0", "1", "-", "0", "1">>

====
